---- MODULE Spec2Model ----
\* The asynchronous channel of tooltool (iterator/channel): the shared event
\* buffer, the waiter list and the result promise of createAsyncChannel, the
\* sink methods next/complete/error, and the read side of createAsyncSource
\* (async iteration, subscribe/onYield/onReturn/onThrow, result).
\*
\* JavaScript is single-threaded and cooperative: one action is one
\* synchronous run (a sink call with every waiter it invokes, a subscribe
\* call with its initial flush, one resumption of an async generator body up
\* to its next yield/return/throw/await).
EXTENDS Integers, Sequences, FiniteSets, TLC

\* ---------------------------------------------------------------- bounds
MaxEvents == 3          \* sink calls made by the producer
MaxReaders == 2         \* readers attached: iterators and subscriptions together

CallbackError == 30     \* the value a throwing subscriber callback throws
ExecutorError == 40     \* the value a throwing executor throws
Undefined == 99         \* the value of complete() called without an argument
MaxPages == 4           \* page indices are 0..MaxPages-1
PageIndices == 0..(MaxPages - 1)
MaxCalls == 3           \* calls of a rate-limited function
Calls == 1..MaxCalls
DurationMs == 2         \* duration_ms, in clock ticks
Null == -1              \* null, where a number can stand
Keys == {1, 2}          \* the cache keys the callers' arguments have
MaxWrapperCalls == 4    \* calls of the function cached returns
MaxClears == 1          \* calls of clearCache
MaxAttempts == 3        \* the largest max_attempts given to the backoff delay

\* reader ids, given out in the order the readers attach; a reader is an
\* iterator (source[Symbol.asyncIterator]()) or a subscription
Readers == 1..MaxReaders

VARIABLES
    events,             \* the shared event buffer
    waiters,            \* the shared waiter list
    result_promise,     \* state of the promise returned by result()
    iters,              \* per iterator: generator position and what it surfaced
    subs,               \* per subscription: flush position and callback calls
    sink_threw          \* did the last sink call throw to the producer

chanVars == <<events, waiters, result_promise, iters, subs, sink_threw>>

\* toAsyncGenerator(handleController): the generator object, its private
\* controller (createGeneratorController) and the one iteration of
\* controller.entries() that yield* drives
VARIABLES
    g_pc,               \* where the body of toAsyncGenerator stands
    g_events,           \* controller: events
    g_waiters,          \* controller: waiters (resolve functions of entries())
    g_result,           \* controller: result_promise
    g_position,         \* entries(): position
    g_surfaced,         \* the items the generator has yielded to its consumer
    g_outcome,          \* how the generator ended
    g_exec              \* the executor: its runs and what it did synchronously

genVars == <<g_pc, g_events, g_waiters, g_result, g_position, g_surfaced,
             g_outcome, g_exec>>

\* pipeToAsyncSink(source, sink), the sink being a channel
VARIABLES
    p_pc,               \* where the body of pipeToAsyncSink stands
    src_out             \* what the source's iterator.next() has produced so far

pipeVars == <<p_pc, src_out>>

\* forEachPage(fetcher, callback) as fetchPages runs it
VARIABLES
    unresolved_count,   \* forEachPage: unresolved_count
    max_pages,          \* forEachPage: max_pages
    on_success,         \* forEachPage: onSuccess, "null" or "set"
    page_promise,       \* the promise forEachPage awaits (and so its own)
    fetches,            \* the state of fetcher(index) and its response, per index
    reported,           \* the largest num_pages a fetch has resolved with, or 1
    fetch_calls,        \* the indices fetcher was called with, in call order
    delivered,          \* the indices callback was called with, in call order
    exec_pc             \* where the executor of fetchPages stands

pageVars == <<unresolved_count, max_pages, on_success, page_promise, fetches,
              reported, fetch_calls, delivered, exec_pc>>

\* rateLimited(fn, duration_ms)
VARIABLES
    queue,              \* rateLimited: queue (the calls by number)
    timer,              \* rateLimited: timer, "null" or the time left to its firing
    processing_count,   \* rateLimited: processing_count
    since_start,        \* performance.now() - last_start_time, "null" or 0..DurationMs
    rl_calls,           \* where each call of the wrapper stands
    rl_settled,         \* how the promise of each call has settled
    rl_starts           \* the calls fn was started for, in order, with the time
                        \* since the previous start

rateVars == <<queue, timer, processing_count, since_start, rl_calls, rl_settled,
              rl_starts>>

\* cached(fn, keyGenerator)
VARIABLES
    cache_map,          \* cached: cache_map, key -> promise (0: no entry)
    promises,           \* the promises fn has returned, in call order
    cache_log,          \* the calls of the wrapper and what each returned
    clears              \* the number of clearCache() calls so far

cacheVars == <<cache_map, promises, cache_log, clears>>

\* retryWithDelay(f, createExponentialBackoffDelay(options))
VARIABLES
    r_pc,               \* where the body of retryWithDelay stands
    r_options,          \* the options of createExponentialBackoffDelay
    r_info,             \* retryWithDelay: info
    r_f_calls,          \* the values of info.attempts f was called with
    r_delay_calls,      \* the values of info.attempts doDelay was called with
    r_sleeps,           \* the delays slept, in order
    r_sleep_left,       \* the time left of the current sleep
    r_result            \* what retryWithDelay returned

retryVars == <<r_pc, r_options, r_info, r_f_calls, r_delay_calls, r_sleeps,
               r_sleep_left, r_result>>

utilVars == <<rateVars, cacheVars, retryVars>>

vars == <<chanVars, genVars, pipeVars, pageVars, utilVars>>

\* what a channel operation leaves alone
notChanVars == <<genVars, pipeVars, pageVars, utilVars>>

\* what a toAsyncGenerator operation leaves alone
notGenVars == <<chanVars, pipeVars, pageVars, utilVars>>

\* The payload of the producer's k-th sink call names the call (k for next,
\* 10 + k for complete, 20 + k for error), so that a reordered, repeated,
\* dropped or overwritten payload is visible wherever it turns up.
YieldValues == {Len(events) + 1}
ReturnValues == {10 + Len(events) + 1}
ErrorValues == {20 + Len(events) + 1}

\* ---------------------------------------------------------------- events
YieldEvent(y) == [type |-> "yield", value |-> y]
ReturnEvent(r) == [type |-> "return", value |-> r]
ThrowEvent(e) == [type |-> "throw", value |-> e]

IsTerminal(ev) == ev.type \in {"return", "throw"}

\* ---------------------------------------------------------------- promise
PendingPromise == [status |-> "pending", value |-> 0]

\* Mutation of Settle: a later resolve/reject overwrites the settlement.
SettleAlways(p, status, value) == [status |-> status, value |-> value]

\* resolveResult/rejectResult, the resolve and reject functions of
\* result_promise: only the first call settles the promise
Settle(p, status, value) ==
    IF p.status = "pending" THEN [status |-> status, value |-> value] ELSE p

\* ---------------------------------------------------------------- state
NoIter == [pc |-> "none", position |-> 0, surfaced |-> <<>>,
           outcome |-> [kind |-> "none", value |-> 0], after |-> {}]

NoSub == [state |-> "none", kind |-> "all", throws |-> FALSE, position |-> 0,
          received |-> <<>>, regLen |-> 0]

ChanInit ==
    /\ events = <<>>
    /\ waiters = <<>>
    /\ result_promise = PendingPromise
    /\ iters = [i \in Readers |-> NoIter]
    /\ subs = [s \in Readers |-> NoSub]
    /\ sink_threw = FALSE

Finished(it) == it.pc \in {"done", "failed"}

Unused(k) == iters[k].pc = "none" /\ subs[k].state = "none"

\* ---------------------------------------------------------------- subscribe
\* const flush = () => { while(position < events.length) { callback(events[position]); position++; } }
\* The callback of onYield/onReturn/onThrow calls the user callback only for
\* its kind; `received` records the calls of the user callback. A throwing
\* user callback leaves the loop before position++.
RECURSIVE flush(_, _)
flush(sub, evs) ==
    IF sub.position < Len(evs)
    THEN LET ev == evs[sub.position + 1]
             invoked == sub.kind = "all" \/ sub.kind = ev.type
             called == IF invoked
                       THEN [sub EXCEPT !.received =
                               Append(@, [pos |-> sub.position + 1,
                                          type |-> ev.type, value |-> ev.value])]
                       ELSE sub
         IN  IF invoked /\ sub.throws
             THEN [sub |-> called, threw |-> TRUE]
             ELSE flush([called EXCEPT !.position = @ + 1], evs)
    ELSE [sub |-> sub, threw |-> FALSE]

\* Mutation of subscribeAs: the subscription starts at the live end of the
\* buffer (let position = events.length) and replays nothing.
subscribeAsLiveOnly(s, kind, throws) ==
    /\ Unused(s)
    /\ \A t \in Readers : t < s => ~Unused(t)
    /\ subs' = [subs EXCEPT ![s] =
            [NoSub EXCEPT !.kind = kind, !.throws = throws, !.state = "active",
                          !.regLen = Len(events), !.position = Len(events)]]
    /\ waiters' = Append(waiters, [kind |-> "flush", id |-> s])
    /\ UNCHANGED <<events, result_promise, iters, sink_threw>>
    /\ UNCHANGED notChanVars

\* subscribe(callback): flush(); waiters.push(flush);
\* an exception of the first flush leaves subscribe before waiters.push
subscribeAs(s, kind, throws) ==
    /\ Unused(s)
    /\ \A t \in Readers : t < s => ~Unused(t)
    /\ LET fresh == [NoSub EXCEPT !.kind = kind, !.throws = throws,
                                  !.regLen = Len(events)]
           r == flush(fresh, events)
       IN  IF r.threw
           THEN /\ subs' = [subs EXCEPT ![s] = [r.sub EXCEPT !.state = "threw"]]
                /\ UNCHANGED waiters
           ELSE /\ subs' = [subs EXCEPT ![s] = [r.sub EXCEPT !.state = "active"]]
                /\ waiters' = Append(waiters, [kind |-> "flush", id |-> s])
    /\ UNCHANGED <<events, result_promise, iters, sink_threw>>
    /\ UNCHANGED notChanVars

subscribe(s) == \E throws \in BOOLEAN : subscribeAs(s, "all", throws)
onYield(s) == \E throws \in BOOLEAN : subscribeAs(s, "yield", throws)
onReturn(s) == \E throws \in BOOLEAN : subscribeAs(s, "return", throws)
onThrow(s) == \E throws \in BOOLEAN : subscribeAs(s, "throw", throws)

\* ---------------------------------------------------------------- push
\* for (const waiter of waiters.splice(0)) waiter();
\* a waiter is the resolve of a suspended iterator (never throws) or the flush
\* of a subscription; the first exception ends the loop.
RECURSIVE callWaiters(_, _, _, _)
callWaiters(ws, its, sbs, evs) ==
    IF ws = <<>>
    THEN [iters |-> its, subs |-> sbs, threw |-> FALSE]
    ELSE LET w == Head(ws) IN
         IF w.kind = "resolve"
         THEN callWaiters(Tail(ws), [its EXCEPT ![w.id].pc = "woken"], sbs, evs)
         ELSE LET r == flush(sbs[w.id], evs) IN
              IF r.threw
              THEN [iters |-> its, subs |-> [sbs EXCEPT ![w.id] = r.sub],
                    threw |-> TRUE]
              ELSE callWaiters(Tail(ws), its, [sbs EXCEPT ![w.id] = r.sub], evs)

\* Mutation of tryWaiters: the waiters are called outside any try/catch, so
\* an exception of a waiter leaves push.
tryWaitersUncaught(ws, its, sbs, evs) ==
    LET r == callWaiters(ws, its, sbs, evs) IN
    [iters |-> r.iters, subs |-> r.subs, caught |-> FALSE, escaped |-> r.threw]

\* try { for (const waiter of waiters.splice(0)) waiter(); } catch(err) { ... }
\* every exception of a waiter is caught inside push
tryWaiters(ws, its, sbs, evs) ==
    LET r == callWaiters(ws, its, sbs, evs) IN
    [iters |-> r.iters, subs |-> r.subs, caught |-> r.threw, escaped |-> FALSE]

\* an exception that escapes push skips the rest of it; a caught one rejects
\* the result unless the event is a return (ignore_err), and then push returns
push(event) ==
    /\ Len(events) < MaxEvents
    /\ events' = Append(events, event)
    /\ waiters' = <<>>
    /\ LET r == tryWaiters(waiters, iters, subs, events') IN
       /\ iters' = r.iters
       /\ subs' = r.subs
       /\ sink_threw' = r.escaped
       /\ result_promise' =
            IF r.escaped THEN result_promise
            ELSE IF r.caught /\ event.type # "return"
            THEN Settle(result_promise, "rejected", CallbackError)
            ELSE CASE event.type = "return" ->
                        Settle(result_promise, "resolved", event.value)
                   [] event.type = "throw" ->
                        Settle(result_promise, "rejected", event.value)
                   [] OTHER -> result_promise

next(y) == push(YieldEvent(y)) /\ UNCHANGED notChanVars
complete(r) == push(ReturnEvent(r)) /\ UNCHANGED notChanVars
error(e) == push(ThrowEvent(e)) /\ UNCHANGED notChanVars

\* ---------------------------------------------------------------- iterator
\* Mutation of runBody: after reading one event the generator moves its
\* position to the end of the buffer (position = events.length).
runBodySkipsBuffered(i) ==
    LET it == iters[i] IN
    IF it.position < Len(events)
    THEN LET event == events[it.position + 1]
             read == [it EXCEPT !.position = Len(events)]
         IN  /\ iters' = [iters EXCEPT ![i] =
                   CASE event.type = "yield" ->
                          [read EXCEPT !.pc = "idle",
                                       !.surfaced = Append(@, event.value)]
                     [] event.type = "return" ->
                          [read EXCEPT !.pc = "done",
                                       !.outcome = [kind |-> "return", value |-> event.value]]
                     [] event.type = "throw" ->
                          [read EXCEPT !.pc = "failed",
                                       !.outcome = [kind |-> "throw", value |-> event.value]]]
             /\ UNCHANGED <<events, waiters>>
    ELSE /\ iters' = [iters EXCEPT ![i].pc = "waiting"]
         /\ waiters' = Append(waiters, [kind |-> "resolve", id |-> i])
         /\ UNCHANGED events

\* Mutation of runBody: the generator takes its event off the front of the
\* buffer (events.shift()) instead of reading it at its own position.
runBodyShifts(i) ==
    LET it == iters[i] IN
    IF 0 < Len(events)
    THEN LET event == Head(events)
             read == [it EXCEPT !.position = @ + 1]
         IN  /\ iters' = [iters EXCEPT ![i] =
                   CASE event.type = "yield" ->
                          [read EXCEPT !.pc = "idle",
                                       !.surfaced = Append(@, event.value)]
                     [] event.type = "return" ->
                          [read EXCEPT !.pc = "done",
                                       !.outcome = [kind |-> "return", value |-> event.value]]
                     [] event.type = "throw" ->
                          [read EXCEPT !.pc = "failed",
                                       !.outcome = [kind |-> "throw", value |-> event.value]]]
             /\ events' = Tail(events)
             /\ UNCHANGED waiters
    ELSE /\ iters' = [iters EXCEPT ![i].pc = "waiting"]
         /\ waiters' = Append(waiters, [kind |-> "resolve", id |-> i])
         /\ UNCHANGED events

\* One run of the generator body from its current suspension point:
\*   while(position < events.length) { event = events[position]; position++; switch ... }
\*   await new Promise(resolve => waiters.push(resolve));
runBody(i) ==
    LET it == iters[i] IN
    IF it.position < Len(events)
    THEN LET event == events[it.position + 1]
             read == [it EXCEPT !.position = @ + 1]
         IN  /\ iters' = [iters EXCEPT ![i] =
                   CASE event.type = "yield" ->
                          [read EXCEPT !.pc = "idle",
                                       !.surfaced = Append(@, event.value)]
                     [] event.type = "return" ->
                          [read EXCEPT !.pc = "done",
                                       !.outcome = [kind |-> "return", value |-> event.value]]
                     [] event.type = "throw" ->
                          [read EXCEPT !.pc = "failed",
                                       !.outcome = [kind |-> "throw", value |-> event.value]]]
             /\ UNCHANGED <<events, waiters>>
    ELSE /\ iters' = [iters EXCEPT ![i].pc = "waiting"]
         /\ waiters' = Append(waiters, [kind |-> "resolve", id |-> i])
         /\ UNCHANGED events

\* Mutation of iterNext: the body awaits a new event before it looks at the
\* buffer.
iterNextWaitsFirst(i) ==
    /\ iters[i].pc = "idle"
    /\ iters' = [iters EXCEPT ![i].pc = "waiting"]
    /\ waiters' = Append(waiters, [kind |-> "resolve", id |-> i])
    /\ UNCHANGED <<events, result_promise, subs, sink_threw>>
    /\ UNCHANGED notChanVars

\* Mutation of asyncIterator: a fresh iterator starts at the live end of the
\* buffer (let position = events.length) instead of at 0.
asyncIteratorLiveOnly(i) ==
    /\ Unused(i)
    /\ \A j \in Readers : j < i => ~Unused(j)
    /\ iters' = [iters EXCEPT ![i] =
            [NoIter EXCEPT !.pc = "idle", !.position = Len(events),
                           !.after = {j \in Readers : Finished(iters[j])}]]
    /\ UNCHANGED <<events, waiters, result_promise, subs, sink_threw>>
    /\ UNCHANGED notChanVars

\* source[Symbol.asyncIterator](): a fresh generator object, body not started
asyncIterator(i) ==
    /\ Unused(i)
    /\ \A j \in Readers : j < i => ~Unused(j)
    /\ iters' = [iters EXCEPT ![i] =
            [NoIter EXCEPT !.pc = "idle",
                           !.after = {j \in Readers : Finished(iters[j])}]]
    /\ UNCHANGED <<events, waiters, result_promise, subs, sink_threw>>
    /\ UNCHANGED notChanVars

\* the consumer's gen.next() on a generator suspended at its start or at a yield
iterNext(i) ==
    /\ iters[i].pc = "idle"
    /\ runBody(i)
    /\ UNCHANGED <<result_promise, subs, sink_threw>>
    /\ UNCHANGED notChanVars

\* the continuation of the await, run after a sink call resolved the promise
iterResume(i) ==
    /\ iters[i].pc = "woken"
    /\ runBody(i)
    /\ UNCHANGED <<result_promise, subs, sink_threw>>
    /\ UNCHANGED notChanVars

\* ---------------------------------------------------------------- spec
Next ==
    \/ \E y \in YieldValues : next(y)
    \/ \E r \in ReturnValues : complete(r)
    \/ \E e \in ErrorValues : error(e)
    \/ \E s \in Readers : subscribe(s)
    \/ \E s \in Readers : onYield(s)
    \/ \E s \in Readers : onReturn(s)
    \/ \E s \in Readers : onThrow(s)
    \/ \E i \in Readers : asyncIterator(i)
    \/ \E i \in Readers : iterNext(i)
    \/ \E i \in Readers : iterResume(i)

\* ---------------------------------------------------------------- toAsyncGenerator
NoExec == [runs |-> 0, sync |-> <<>>, threw |-> FALSE]

GenInit ==
    /\ g_pc = "none"
    /\ g_events = <<>>
    /\ g_waiters = <<>>
    /\ g_result = PendingPromise
    /\ g_position = 0
    /\ g_surfaced = <<>>
    /\ g_outcome = [kind |-> "none", value |-> 0]
    /\ g_exec = NoExec

\* the state of a controller and of the body that reads it
CtrlState == [events |-> g_events, waiters |-> g_waiters, result |-> g_result,
              pc |-> g_pc]

\* createGeneratorController.push: events.push(event); every waiter is called
\* (the resolve of the suspended entries() generator); a terminal event
\* resolves or rejects the result
ctrlPush(st, event) ==
    [events |-> Append(st.events, event),
     waiters |-> <<>>,
     pc |-> IF st.waiters # <<>> THEN "woken" ELSE st.pc,
     result |-> CASE event.type = "return" -> Settle(st.result, "resolved", event.value)
                  [] event.type = "throw" -> Settle(st.result, "rejected", event.value)
                  [] OTHER -> st.result]

\* the event of the controller's k-th sink call of a kind; the payload names
\* the call as for the channel
SinkEvent(kind, k) ==
    CASE kind = "yield" -> YieldEvent(k)
      [] kind = "return" -> ReturnEvent(10 + k)
      [] kind = "throw" -> ThrowEvent(20 + k)

SinkKinds == {"yield", "return", "throw"}

\* what an executor does before it returns or throws: a sequence of yeet,
\* done and fail calls
SyncScripts(maxLen) == UNION {[1..n -> SinkKinds] : n \in 0..maxLen}

RECURSIVE runScript(_, _)
runScript(st, ops) ==
    IF ops = <<>> THEN st
    ELSE runScript(ctrlPush(st, SinkEvent(Head(ops), Len(st.events) + 1)), Tail(ops))

\* Mutation of runExecutor: no try/catch around handleController(controller).
runExecutorUncaught(st, ops, throws) ==
    LET ran == runScript(st, ops) IN
    [st |-> ran, escaped |-> throws]

\* try { handleController(controller); } catch(err) { controller.fail(err); }
runExecutor(st, ops, throws) ==
    LET ran == runScript(st, ops) IN
    [st |-> IF throws THEN ctrlPush(ran, ThrowEvent(ExecutorError)) ELSE ran,
     escaped |-> FALSE]

\* one run of the body of entries() under yield*, from its suspension point;
\* when entries() returns, the body goes on to `return await controller.result()`
genBody(st) ==
    IF g_position < Len(st.events)
    THEN LET event == st.events[g_position + 1] IN
         /\ g_position' = g_position + 1
         /\ g_waiters' = st.waiters
         /\ CASE event.type = "yield" ->
                   /\ g_pc' = "idle"
                   /\ g_surfaced' = Append(g_surfaced, event.value)
                   /\ UNCHANGED g_outcome
              [] event.type = "return" ->
                   /\ g_pc' = "awaitResult"
                   /\ UNCHANGED <<g_surfaced, g_outcome>>
              [] event.type = "throw" ->
                   /\ g_pc' = "failed"
                   /\ g_outcome' = [kind |-> "throw", value |-> event.value]
                   /\ UNCHANGED g_surfaced
    ELSE /\ g_pc' = "waiting"
         /\ g_waiters' = Append(st.waiters, "resolve")
         /\ UNCHANGED <<g_position, g_surfaced, g_outcome>>

\* Mutation of toAsyncGenerator: a plain function that runs the executor
\* before it returns the generator.
toAsyncGeneratorEager ==
    /\ g_pc = "none"
    /\ g_pc' = "created"
    /\ g_exec' = [g_exec EXCEPT !.runs = @ + 1]
    /\ UNCHANGED <<g_events, g_waiters, g_result, g_position, g_surfaced, g_outcome>>
    /\ UNCHANGED notGenVars

\* the call toAsyncGenerator(handleController): an async generator function
\* returns its generator object without running any of its body
toAsyncGenerator ==
    /\ g_pc = "none"
    /\ g_pc' = "created"
    /\ UNCHANGED <<g_events, g_waiters, g_result, g_position, g_surfaced,
                   g_outcome, g_exec>>
    /\ UNCHANGED notGenVars

\* the first gen.next(): the body creates the controller, runs the executor
\* and starts yield* controller.entries(). An exception that escapes the body
\* ends the generator with that exception.
genStart ==
    /\ g_pc = "created"
    /\ \E throws \in BOOLEAN :
       \E ops \in SyncScripts(MaxEvents - (IF throws THEN 1 ELSE 0)) :
          LET r == runExecutor(CtrlState, ops, throws) IN
          /\ g_exec' = [runs |-> g_exec.runs + 1, sync |-> runScript(CtrlState, ops).events,
                        threw |-> throws]
          /\ g_events' = r.st.events
          /\ g_result' = r.st.result
          /\ IF r.escaped
             THEN /\ g_pc' = "failed"
                  /\ g_outcome' = [kind |-> "throw", value |-> ExecutorError]
                  /\ g_waiters' = r.st.waiters
                  /\ UNCHANGED <<g_position, g_surfaced>>
             ELSE genBody(r.st)
    /\ UNCHANGED notGenVars

\* a later gen.next(), on a generator suspended at a yield
genNext ==
    /\ g_pc = "idle"
    /\ genBody(CtrlState)
    /\ UNCHANGED <<g_events, g_result, g_exec>>
    /\ UNCHANGED notGenVars

\* the continuation of the await of entries(), after a sink call woke it
genResume ==
    /\ g_pc = "woken"
    /\ genBody(CtrlState)
    /\ UNCHANGED <<g_events, g_result, g_exec>>
    /\ UNCHANGED notGenVars

\* return await controller.result();
genAwaitResult ==
    /\ g_pc = "awaitResult"
    /\ g_result.status # "pending"
    /\ g_pc' = IF g_result.status = "resolved" THEN "done" ELSE "failed"
    /\ g_outcome' = [kind |-> IF g_result.status = "resolved" THEN "return" ELSE "throw",
                     value |-> g_result.value]
    /\ UNCHANGED <<g_events, g_waiters, g_result, g_position, g_surfaced, g_exec>>
    /\ UNCHANGED notGenVars

\* a sink call the executor makes later (from a timer or a promise callback
\* it set up while it ran)
ctrlCall(kind) ==
    /\ g_exec.runs > 0
    /\ Len(g_events) < MaxEvents
    /\ LET st == ctrlPush(CtrlState, SinkEvent(kind, Len(g_events) + 1)) IN
       /\ g_events' = st.events
       /\ g_waiters' = st.waiters
       /\ g_result' = st.result
       /\ g_pc' = st.pc
    /\ UNCHANGED <<g_position, g_surfaced, g_outcome, g_exec>>
    /\ UNCHANGED notGenVars

yeet == ctrlCall("yield")
done == ctrlCall("return")
fail == ctrlCall("throw")

GenNext ==
    \/ toAsyncGenerator
    \/ genStart
    \/ genNext
    \/ genResume
    \/ genAwaitResult
    \/ yeet
    \/ done
    \/ fail

\* ---------------------------------------------------------------- pipeToAsyncSink
PipeInit ==
    /\ p_pc = "none"
    /\ src_out = <<>>

\* what one iterator.next() of the source can settle with: a value, the end
\* of the source with its return value, or an exception
SourceResults ==
    {[kind |-> "value", value |-> y] : y \in YieldValues}
        \cup {[kind |-> "done", value |-> r] : r \in ReturnValues}
        \cup {[kind |-> "raise", value |-> e] : e \in ErrorValues}

\* the call pipeToAsyncSink(source, sink): the body takes the iterator and
\* suspends at its first await iterator.next()
pipeToAsyncSink ==
    /\ p_pc = "none"
    /\ p_pc' = "awaiting"
    /\ UNCHANGED <<src_out, chanVars, genVars, pageVars, utilVars>>

\* Mutation of pipeStep: no try/catch around await iterator.next().
pipeStepUncaught(res) ==
    /\ p_pc = "awaiting"
    /\ src_out' = Append(src_out, res)
    /\ CASE res.kind = "raise" ->
              /\ Len(events) < MaxEvents
              /\ p_pc' = "rejected"
              /\ UNCHANGED chanVars
         [] res.kind = "done" ->
              /\ push(ReturnEvent(res.value))
              /\ p_pc' = IF sink_threw' THEN "rejected" ELSE "resolved"
         [] res.kind = "value" ->
              /\ push(YieldEvent(res.value))
              /\ p_pc' = IF sink_threw' THEN "rejected" ELSE "awaiting"
    /\ UNCHANGED <<genVars, pageVars, utilVars>>

\* one turn of the loop, from the settling of iterator.next() to the next
\* await or to the return; the sink's next/complete/error are the channel's.
\* An exception of a sink call is not caught and rejects the promise.
pipeStep(res) ==
    /\ p_pc = "awaiting"
    /\ src_out' = Append(src_out, res)
    /\ CASE res.kind = "raise" ->
              /\ push(ThrowEvent(res.value))
              /\ p_pc' = IF sink_threw' THEN "rejected" ELSE "resolved"
         [] res.kind = "done" ->
              /\ push(ReturnEvent(res.value))
              /\ p_pc' = IF sink_threw' THEN "rejected" ELSE "resolved"
         [] res.kind = "value" ->
              /\ push(YieldEvent(res.value))
              /\ p_pc' = IF sink_threw' THEN "rejected" ELSE "awaiting"
    /\ UNCHANGED <<genVars, pageVars, utilVars>>

PipeNext ==
    \/ pipeToAsyncSink
    \/ \E res \in SourceResults : pipeStep(res)
    \/ \E s \in Readers : subscribe(s)
    \/ \E s \in Readers : onYield(s)
    \/ \E s \in Readers : onReturn(s)
    \/ \E s \in Readers : onThrow(s)
    \/ \E i \in Readers : asyncIterator(i)
    \/ \E i \in Readers : iterNext(i)
    \/ \E i \in Readers : iterResume(i)

\* ---------------------------------------------------------------- forEachPage
NoFetch == [state |-> "none", grows |-> FALSE, has_page |-> FALSE]

PageInit ==
    /\ unresolved_count = 0
    /\ max_pages = 1
    /\ on_success = "null"
    /\ page_promise = PendingPromise
    /\ fetches = [i \in PageIndices |-> NoFetch]
    /\ reported = 1
    /\ fetch_calls = <<>>
    /\ delivered = <<>>
    /\ exec_pc = "none"

\* the error fetcher(index) rejects with
FetchError(index) == 50 + index

\* the call fetchPages(fetcher): an async generator function returns its
\* generator object without running any of its body
fetchPages ==
    /\ g_pc = "none"
    /\ g_pc' = "created"
    /\ UNCHANGED <<g_events, g_waiters, g_result, g_position, g_surfaced,
                   g_outcome, g_exec>>
    /\ UNCHANGED <<chanVars, pipeVars, pageVars, utilVars>>

\* the first next(): yield* toAsyncGenerator(executor) runs the executor,
\* which calls forEachPage: onSuccess and onFail are set, invokeFetcher(0)
\* counts the fetch and calls fetcher(0), and everything suspends on awaits;
\* then the iteration of the controller's entries starts
fetchPagesStart ==
    /\ g_pc = "created"
    /\ on_success' = "set"
    /\ unresolved_count' = unresolved_count + 1
    /\ fetches' = [fetches EXCEPT ![0].state = "inflight"]
    /\ fetch_calls' = Append(fetch_calls, 0)
    /\ exec_pc' = "awaiting"
    /\ g_exec' = [g_exec EXCEPT !.runs = @ + 1]
    /\ genBody(CtrlState)
    /\ UNCHANGED <<g_events, g_result, max_pages, page_promise, reported, delivered>>
    /\ UNCHANGED <<chanVars, pipeVars, utilVars>>

\* the controller takes the state st
setCtrl(st) ==
    /\ g_events' = st.events
    /\ g_waiters' = st.waiters
    /\ g_result' = st.result
    /\ g_pc' = st.pc

\* the indices lo..hi-1 in increasing order
RECURSIVE IndexRange(_, _)
IndexRange(lo, hi) == IF lo >= hi THEN <<>> ELSE <<lo>> \o IndexRange(lo + 1, hi)

\* Mutation of fetchResolve: no `if(onSuccess == null) return;` after the await.
fetchResolveUnguarded(index, num_pages, has_page) ==
    /\ fetches[index].state = "inflight"
    /\ IF has_page
       THEN /\ setCtrl(ctrlPush(CtrlState, YieldEvent(index)))
            /\ delivered' = Append(delivered, index)
       ELSE UNCHANGED <<delivered, g_events, g_waiters, g_result, g_pc>>
    /\ IF max_pages < num_pages
       THEN /\ max_pages' = num_pages
            /\ unresolved_count' = (unresolved_count - 1) + (num_pages - max_pages)
            /\ fetch_calls' = fetch_calls \o IndexRange(max_pages, num_pages)
            /\ fetches' = [i \in PageIndices |->
                    IF i = index
                    THEN [state |-> "done", grows |-> max_pages < num_pages, has_page |-> has_page]
                    ELSE IF i >= max_pages /\ i < num_pages
                         THEN [fetches[i] EXCEPT !.state = "inflight"]
                         ELSE fetches[i]]
            /\ UNCHANGED <<on_success, page_promise>>
       ELSE /\ unresolved_count' = unresolved_count - 1
            /\ fetches' = [fetches EXCEPT ![index] =
                    [state |-> "done", grows |-> max_pages < num_pages, has_page |-> has_page]]
            /\ UNCHANGED <<max_pages, fetch_calls>>
            /\ IF unresolved_count - 1 = 0 /\ on_success = "set"
               THEN /\ on_success' = "null"
                    /\ page_promise' = Settle(page_promise, "resolved", Undefined)
               ELSE UNCHANGED <<on_success, page_promise>>
    /\ reported' = IF reported < num_pages THEN num_pages ELSE reported
    /\ UNCHANGED <<g_position, g_surfaced, g_outcome, g_exec, exec_pc>>
    /\ UNCHANGED <<chanVars, pipeVars, utilVars>>

\* Mutation of fetchResolve: the loop of onFetchSuccess starts at 0 instead of
\* old_max_pages.
fetchResolveRestarts(index, num_pages, has_page) ==
    /\ fetches[index].state = "inflight"
    /\ IF on_success = "null"
       THEN /\ fetches' = [fetches EXCEPT ![index] =
                    [state |-> "ignored", grows |-> max_pages < num_pages, has_page |-> has_page]]
            /\ UNCHANGED <<unresolved_count, max_pages, on_success, page_promise, fetch_calls,
                           delivered, g_events, g_waiters, g_result, g_pc>>
       ELSE /\ IF has_page
               THEN /\ setCtrl(ctrlPush(CtrlState, YieldEvent(index)))
                    /\ delivered' = Append(delivered, index)
               ELSE UNCHANGED <<delivered, g_events, g_waiters, g_result, g_pc>>
            /\ IF max_pages < num_pages
               THEN /\ max_pages' = num_pages
                    /\ unresolved_count' = (unresolved_count - 1) + num_pages
                    /\ fetch_calls' = fetch_calls \o IndexRange(0, num_pages)
                    /\ fetches' = [i \in PageIndices |->
                            IF i < num_pages
                            THEN [fetches[i] EXCEPT !.state = "inflight"]
                            ELSE fetches[i]]
                    /\ UNCHANGED <<on_success, page_promise>>
               ELSE /\ unresolved_count' = unresolved_count - 1
                    /\ fetches' = [fetches EXCEPT ![index] =
                            [state |-> "done", grows |-> max_pages < num_pages, has_page |-> has_page]]
                    /\ UNCHANGED <<max_pages, fetch_calls>>
                    /\ IF unresolved_count - 1 = 0
                       THEN /\ on_success' = "null"
                            /\ page_promise' = Settle(page_promise, "resolved", Undefined)
                       ELSE UNCHANGED <<on_success, page_promise>>
    /\ reported' = IF reported < num_pages THEN num_pages ELSE reported
    /\ UNCHANGED <<g_position, g_surfaced, g_outcome, g_exec, exec_pc>>
    /\ UNCHANGED <<chanVars, pipeVars, utilVars>>

\* invokeFetcher(index) after fetcher(index) resolved with {num_pages, page}:
\* nothing when onSuccess is null; else callback(page, index) for a non-nullish
\* page, which is next({page, index}), then onFetchSuccess(num_pages), which
\* calls invokeFetcher(i) for i = old_max_pages .. new_max_pages-1
fetchResolve(index, num_pages, has_page) ==
    /\ fetches[index].state = "inflight"
    /\ IF on_success = "null"
       THEN /\ fetches' = [fetches EXCEPT ![index] =
                    [state |-> "ignored", grows |-> max_pages < num_pages, has_page |-> has_page]]
            /\ UNCHANGED <<unresolved_count, max_pages, on_success, page_promise, fetch_calls,
                           delivered, g_events, g_waiters, g_result, g_pc>>
       ELSE /\ IF has_page
               THEN /\ setCtrl(ctrlPush(CtrlState, YieldEvent(index)))
                    /\ delivered' = Append(delivered, index)
               ELSE UNCHANGED <<delivered, g_events, g_waiters, g_result, g_pc>>
            /\ IF max_pages < num_pages
               THEN /\ max_pages' = num_pages
                    /\ unresolved_count' = (unresolved_count - 1) + (num_pages - max_pages)
                    /\ fetch_calls' = fetch_calls \o IndexRange(max_pages, num_pages)
                    /\ fetches' = [i \in PageIndices |->
                            IF i = index
                            THEN [state |-> "done", grows |-> max_pages < num_pages, has_page |-> has_page]
                            ELSE IF i >= max_pages /\ i < num_pages
                                 THEN [fetches[i] EXCEPT !.state = "inflight"]
                                 ELSE fetches[i]]
                    /\ UNCHANGED <<on_success, page_promise>>
               ELSE /\ unresolved_count' = unresolved_count - 1
                    /\ fetches' = [fetches EXCEPT ![index] =
                            [state |-> "done", grows |-> max_pages < num_pages, has_page |-> has_page]]
                    /\ UNCHANGED <<max_pages, fetch_calls>>
                    /\ IF unresolved_count - 1 = 0
                       THEN /\ on_success' = "null"
                            /\ page_promise' = Settle(page_promise, "resolved", Undefined)
                       ELSE UNCHANGED <<on_success, page_promise>>
    /\ reported' = IF reported < num_pages THEN num_pages ELSE reported
    /\ UNCHANGED <<g_position, g_surfaced, g_outcome, g_exec, exec_pc>>
    /\ UNCHANGED <<chanVars, pipeVars, utilVars>>

\* invokeFetcher(index) after fetcher(index) rejected: nothing when onSuccess
\* is null; else onSuccess = null and onFail(err)
fetchReject(index) ==
    /\ fetches[index].state = "inflight"
    /\ IF on_success = "null"
       THEN /\ fetches' = [fetches EXCEPT ![index].state = "ignored"]
            /\ UNCHANGED <<on_success, page_promise>>
       ELSE /\ fetches' = [fetches EXCEPT ![index].state = "rejected"]
            /\ on_success' = "null"
            /\ page_promise' = Settle(page_promise, "rejected", FetchError(index))
    /\ UNCHANGED <<unresolved_count, max_pages, reported, fetch_calls, delivered, exec_pc>>
    /\ UNCHANGED <<chanVars, genVars, pipeVars, utilVars>>

\* Mutation of executorContinue: complete() is called before error(err).
executorCompletesFirst ==
    /\ exec_pc = "awaiting"
    /\ page_promise.status # "pending"
    /\ exec_pc' = "finished"
    /\ LET completed == ctrlPush(CtrlState, ReturnEvent(Undefined)) IN
       setCtrl(IF page_promise.status = "rejected"
               THEN ctrlPush(completed, ThrowEvent(page_promise.value))
               ELSE completed)
    /\ UNCHANGED <<g_position, g_surfaced, g_outcome, g_exec>>
    /\ UNCHANGED <<unresolved_count, max_pages, on_success, page_promise, fetches,
                   reported, fetch_calls, delivered>>
    /\ UNCHANGED <<chanVars, pipeVars, utilVars>>

\* the executor after await forEachPage(...) settled:
\* catch(err) { error(err); } complete();
executorContinue ==
    /\ exec_pc = "awaiting"
    /\ page_promise.status # "pending"
    /\ exec_pc' = "finished"
    /\ LET caught == IF page_promise.status = "rejected"
                     THEN ctrlPush(CtrlState, ThrowEvent(page_promise.value))
                     ELSE CtrlState IN
       setCtrl(ctrlPush(caught, ReturnEvent(Undefined)))
    /\ UNCHANGED <<g_position, g_surfaced, g_outcome, g_exec>>
    /\ UNCHANGED <<unresolved_count, max_pages, on_success, page_promise, fetches,
                   reported, fetch_calls, delivered>>
    /\ UNCHANGED <<chanVars, pipeVars, utilVars>>

PagesNext ==
    \/ fetchPages
    \/ fetchPagesStart
    \/ \E index \in PageIndices : \E num_pages \in 0..MaxPages :
          \E has_page \in BOOLEAN : fetchResolve(index, num_pages, has_page)
    \/ \E index \in PageIndices : fetchReject(index)
    \/ executorContinue
    \/ genNext
    \/ genResume
    \/ genAwaitResult

\* ---------------------------------------------------------------- rateLimited
NoCall == [state |-> "none", arrived |-> "none", took |-> Null]

RateInit ==
    /\ queue = <<>>
    /\ timer = Null
    /\ processing_count = 0
    /\ since_start = Null
    /\ rl_calls = [c \in Calls |-> NoCall]
    /\ rl_settled = [c \in Calls |-> PendingPromise]
    /\ rl_starts = <<>>

\* the state processQueue reads and writes
RateState == [queue |-> queue, timer |-> timer, processing_count |-> processing_count,
              since_start |-> since_start, rl_calls |-> rl_calls, rl_starts |-> rl_starts]

setRate(st) ==
    /\ queue' = st.queue
    /\ timer' = st.timer
    /\ processing_count' = st.processing_count
    /\ since_start' = st.since_start
    /\ rl_calls' = st.rl_calls
    /\ rl_starts' = st.rl_starts

\* the head of the queue is taken and fn is started for it:
\* ++processing_count; last_start_time = performance.now(); fn(...item.args)
startItem(st) ==
    LET item == Head(st.queue) IN
    [st EXCEPT !.queue = Tail(st.queue),
               !.processing_count = @ + 1,
               !.since_start = 0,
               !.rl_calls[item].state = "running",
               !.rl_starts = Append(@, [call |-> item, gap |-> st.since_start])]

processQueue(st) ==
    IF st.processing_count > 0 THEN st
    ELSE IF st.queue = <<>> THEN [st EXCEPT !.timer = Null]
    ELSE startItem(st)

\* when a call of the wrapper arrives: idle, while a call is processing, or
\* while the timer is pending
Arrival == IF processing_count > 0 THEN "processing"
           ELSE IF timer # Null THEN "timer"
           ELSE "idle"

\* Mutation of wrappedFunction: processQueue is called whenever no timer is
\* pending and does not look at processing_count.
wrappedFunctionOverlaps(c) ==
    /\ rl_calls[c].state = "none"
    /\ \A d \in Calls : d < c => rl_calls[d].state # "none"
    /\ LET pushed == [RateState EXCEPT !.queue = Append(@, c),
                                       !.rl_calls[c].state = "queued",
                                       !.rl_calls[c].arrived = Arrival]
       IN  setRate(IF timer = Null THEN startItem(pushed) ELSE pushed)
    /\ UNCHANGED rl_settled
    /\ UNCHANGED <<chanVars, genVars, pipeVars, pageVars, cacheVars, retryVars>>

\* a call of the wrapper: queue.push({args, resolve, reject});
\* if(processing_count === 0 && timer == null) processQueue();
wrappedFunction(c) ==
    /\ rl_calls[c].state = "none"
    /\ \A d \in Calls : d < c => rl_calls[d].state # "none"
    /\ LET pushed == [RateState EXCEPT !.queue = Append(@, c),
                                       !.rl_calls[c].state = "queued",
                                       !.rl_calls[c].arrived = Arrival]
       IN  setRate(IF processing_count = 0 /\ timer = Null
                   THEN processQueue(pushed) ELSE pushed)
    /\ UNCHANGED rl_settled
    /\ UNCHANGED <<chanVars, genVars, pipeVars, pageVars, cacheVars, retryVars>>

\* fn(...item.args) settles and .then(item.resolve, item.reject) settles the
\* promise of the call the item was queued for; the finally callback is queued
fnSettles(c, ok) ==
    /\ rl_calls[c].state = "running"
    /\ rl_calls' = [rl_calls EXCEPT ![c].state = "settled", ![c].took = since_start]
    /\ rl_settled' = [rl_settled EXCEPT ![c] =
            Settle(@, IF ok THEN "resolved" ELSE "rejected", c)]
    /\ UNCHANGED <<queue, timer, processing_count, since_start, rl_starts>>
    /\ UNCHANGED <<chanVars, genVars, pipeVars, pageVars, cacheVars, retryVars>>

\* Mutation of finallyCallback: the timer is never set.
finallyForgetsQueue(c) ==
    /\ rl_calls[c].state = "settled"
    /\ rl_calls' = [rl_calls EXCEPT ![c].state = "finished"]
    /\ processing_count' = processing_count - 1
    /\ timer' = Null
    /\ UNCHANGED <<queue, since_start, rl_settled, rl_starts>>
    /\ UNCHANGED <<chanVars, genVars, pipeVars, pageVars, cacheVars, retryVars>>

\* the .finally callback: remaining = max(0, getDuration() - elapsed_since_start);
\* --processing_count; timer = null when the queue is empty, else
\* setTimeout(..., remaining)
finallyCallback(c) ==
    /\ rl_calls[c].state = "settled"
    /\ rl_calls' = [rl_calls EXCEPT ![c].state = "finished"]
    /\ processing_count' = processing_count - 1
    /\ timer' = IF queue = <<>> THEN Null
                ELSE IF DurationMs - since_start > 0 THEN DurationMs - since_start
                ELSE 0
    /\ UNCHANGED <<queue, since_start, rl_settled, rl_starts>>
    /\ UNCHANGED <<chanVars, genVars, pipeVars, pageVars, cacheVars, retryVars>>

\* the timer callback, once its time has passed: timer = null; processQueue();
timerFires ==
    /\ timer = 0
    /\ setRate(processQueue([RateState EXCEPT !.timer = Null]))
    /\ UNCHANGED rl_settled
    /\ UNCHANGED <<chanVars, genVars, pipeVars, pageVars, cacheVars, retryVars>>

\* one unit of time passes; no promise callback is waiting to run. The time
\* since the last start is kept up to DurationMs, which is all the code
\* distinguishes.
rateTick ==
    /\ \A c \in Calls : rl_calls[c].state # "settled"
    /\ since_start' = IF since_start = Null \/ since_start = DurationMs
                      THEN since_start ELSE since_start + 1
    /\ timer' = IF timer > 0 THEN timer - 1 ELSE timer
    /\ UNCHANGED <<queue, processing_count, rl_calls, rl_settled, rl_starts>>
    /\ UNCHANGED <<chanVars, genVars, pipeVars, pageVars, cacheVars, retryVars>>

RateNext ==
    \/ \E c \in Calls : wrappedFunction(c)
    \/ \E c \in Calls : \E ok \in BOOLEAN : fnSettles(c, ok)
    \/ \E c \in Calls : finallyCallback(c)
    \/ timerFires
    \/ rateTick

\* ---------------------------------------------------------------- cached
CacheInit ==
    /\ cache_map = [key \in Keys |-> 0]
    /\ promises = <<>>
    /\ cache_log = <<>>
    /\ clears = 0

\* Mutation of cachedCall: the cache is not looked up.
cachedCallNoLookup(key) ==
    /\ Len(cache_log) < MaxWrapperCalls
    /\ promises' = Append(promises, [key |-> key, status |-> "pending",
                                     handler |-> "registered", ran_at |-> 0,
                                     clears |-> clears])
    /\ cache_map' = [cache_map EXCEPT ![key] = Len(promises) + 1]
    /\ cache_log' = Append(cache_log, [key |-> key, promise |-> Len(promises) + 1,
                                       fresh |-> TRUE, seen |-> "pending",
                                       clears |-> clears])
    /\ UNCHANGED clears
    /\ UNCHANGED <<chanVars, genVars, pipeVars, pageVars, rateVars, retryVars>>

\* a call of the wrapper whose arguments have the cache key `key`: the stored
\* promise when there is one; else fn is called, its promise stored and
\* returned, with a catch callback on it
cachedCall(key) ==
    /\ Len(cache_log) < MaxWrapperCalls
    /\ IF cache_map[key] # 0
       THEN /\ cache_log' = Append(cache_log,
                    [key |-> key, promise |-> cache_map[key], fresh |-> FALSE,
                     seen |-> promises[cache_map[key]].status, clears |-> clears])
            /\ UNCHANGED <<cache_map, promises>>
       ELSE /\ promises' = Append(promises, [key |-> key, status |-> "pending",
                                             handler |-> "registered", ran_at |-> 0,
                                             clears |-> clears])
            /\ cache_map' = [cache_map EXCEPT ![key] = Len(promises) + 1]
            /\ cache_log' = Append(cache_log, [key |-> key, promise |-> Len(promises) + 1,
                                               fresh |-> TRUE, seen |-> "pending",
                                               clears |-> clears])
    /\ UNCHANGED clears
    /\ UNCHANGED <<chanVars, genVars, pipeVars, pageVars, rateVars, retryVars>>

\* the promise fn returned resolves
fnResolves(q) ==
    /\ q \in 1..Len(promises)
    /\ promises[q].status = "pending"
    /\ promises' = [promises EXCEPT ![q].status = "resolved"]
    /\ UNCHANGED <<cache_map, cache_log, clears>>
    /\ UNCHANGED <<chanVars, genVars, pipeVars, pageVars, rateVars, retryVars>>

\* the promise fn returned rejects: its catch callback is queued
fnRejects(q) ==
    /\ q \in 1..Len(promises)
    /\ promises[q].status = "pending"
    /\ promises' = [promises EXCEPT ![q].status = "rejected", ![q].handler = "queued"]
    /\ UNCHANGED <<cache_map, cache_log, clears>>
    /\ UNCHANGED <<chanVars, genVars, pipeVars, pageVars, rateVars, retryVars>>

\* Mutation of catchCallback: the key is deleted without comparing the entry.
catchCallbackDeletesAny(q) ==
    /\ q \in 1..Len(promises)
    /\ promises[q].handler = "queued"
    /\ promises' = [promises EXCEPT ![q].handler = "ran", ![q].ran_at = Len(promises)]
    /\ cache_map' = [cache_map EXCEPT ![promises[q].key] = 0]
    /\ UNCHANGED <<cache_log, clears>>
    /\ UNCHANGED <<chanVars, genVars, pipeVars, pageVars, rateVars, retryVars>>

\* the catch callback runs:
\* if (cache_map.get(key) === result_promise) cache_map.delete(key);
catchCallback(q) ==
    /\ q \in 1..Len(promises)
    /\ promises[q].handler = "queued"
    /\ promises' = [promises EXCEPT ![q].handler = "ran", ![q].ran_at = Len(promises)]
    /\ cache_map' = IF cache_map[promises[q].key] = q
                    THEN [cache_map EXCEPT ![promises[q].key] = 0]
                    ELSE cache_map
    /\ UNCHANGED <<cache_log, clears>>
    /\ UNCHANGED <<chanVars, genVars, pipeVars, pageVars, rateVars, retryVars>>

\* clearCache(): cache_map.clear()
clearCache ==
    /\ clears < MaxClears
    /\ clears' = clears + 1
    /\ cache_map' = [key \in Keys |-> 0]
    /\ UNCHANGED <<promises, cache_log>>
    /\ UNCHANGED <<chanVars, genVars, pipeVars, pageVars, rateVars, retryVars>>

CacheNext ==
    \/ \E key \in Keys : cachedCall(key)
    \/ \E q \in 1..MaxWrapperCalls : fnResolves(q)
    \/ \E q \in 1..MaxWrapperCalls : fnRejects(q)
    \/ \E q \in 1..MaxWrapperCalls : catchCallback(q)
    \/ clearCache

\* ---------------------------------------------------------------- retryWithDelay
NoInfo == [attempts |-> 0, error |-> Null]

RetryInit ==
    /\ r_pc = "none"
    /\ r_options = [init_delay |-> 1, max_delay |-> Null, multiplier |-> 2,
                    max_attempts |-> 1]
    /\ r_info = NoInfo
    /\ r_f_calls = <<>>
    /\ r_delay_calls = <<>>
    /\ r_sleeps = <<>>
    /\ r_sleep_left = 0
    /\ r_result = [kind |-> "none", value |-> 0]

\* the options given to createExponentialBackoffDelay, max_attempts positive
BackoffOptions ==
    [init_delay : {1, 2}, max_delay : {Null, 3}, multiplier : {1, 2},
     max_attempts : 1..MaxAttempts]

RECURSIVE Pow(_, _)
Pow(base, exponent) == IF exponent <= 0 THEN 1 ELSE base * Pow(base, exponent - 1)

getDelayForExponentialBackoff(options, attempts) ==
    LET delay == options.init_delay * Pow(options.multiplier, attempts - 1)
    IN  IF options.max_delay = Null \/ delay <= options.max_delay
        THEN delay ELSE options.max_delay

\* the call retryWithDelay(f, createExponentialBackoffDelay(options)):
\* info = {attempts: 0} and the first f(info)
retryWithDelay(options) ==
    /\ r_pc = "none"
    /\ r_pc' = "calling"
    /\ r_options' = options
    /\ r_f_calls' = <<r_info.attempts>>
    /\ UNCHANGED <<r_info, r_delay_calls, r_sleeps, r_sleep_left, r_result>>
    /\ UNCHANGED <<chanVars, genVars, pipeVars, pageVars, rateVars, cacheVars>>

\* f(info) resolves: return await f(info)
fResolves ==
    /\ r_pc = "calling"
    /\ r_pc' = "returned"
    /\ r_result' = [kind |-> "value", value |-> Len(r_f_calls)]
    /\ UNCHANGED <<r_options, r_info, r_f_calls, r_delay_calls, r_sleeps, r_sleep_left>>
    /\ UNCHANGED <<chanVars, genVars, pipeVars, pageVars, rateVars, cacheVars>>

\* Mutation of fRejects: the delay function forfeits when
\* info.attempts > max_attempts.
fRejectsForfeitsLate ==
    /\ r_pc = "calling"
    /\ LET info == [attempts |-> r_info.attempts + 1, error |-> Len(r_f_calls)] IN
       /\ r_info' = info
       /\ r_delay_calls' = Append(r_delay_calls, info.attempts)
       /\ IF info.attempts > r_options.max_attempts
          THEN /\ r_pc' = "returned"
               /\ r_result' = [kind |-> "null", value |-> 0]
               /\ UNCHANGED <<r_sleeps, r_sleep_left>>
          ELSE /\ r_pc' = "sleeping"
               /\ r_sleeps' = Append(r_sleeps,
                       getDelayForExponentialBackoff(r_options, info.attempts))
               /\ r_sleep_left' = getDelayForExponentialBackoff(r_options, info.attempts)
               /\ UNCHANGED r_result
    /\ UNCHANGED <<r_options, r_f_calls>>
    /\ UNCHANGED <<chanVars, genVars, pipeVars, pageVars, rateVars, cacheVars>>

\* f(info) rejects: ++info.attempts; info.error = err; doDelay(info), which
\* returns false when info.attempts >= max_attempts (retryWithDelay then
\* returns null) and else sleeps the backoff delay
fRejects ==
    /\ r_pc = "calling"
    /\ LET info == [attempts |-> r_info.attempts + 1, error |-> Len(r_f_calls)] IN
       /\ r_info' = info
       /\ r_delay_calls' = Append(r_delay_calls, info.attempts)
       /\ IF info.attempts >= r_options.max_attempts
          THEN /\ r_pc' = "returned"
               /\ r_result' = [kind |-> "null", value |-> 0]
               /\ UNCHANGED <<r_sleeps, r_sleep_left>>
          ELSE /\ r_pc' = "sleeping"
               /\ r_sleeps' = Append(r_sleeps,
                       getDelayForExponentialBackoff(r_options, info.attempts))
               /\ r_sleep_left' = getDelayForExponentialBackoff(r_options, info.attempts)
               /\ UNCHANGED r_result
    /\ UNCHANGED <<r_options, r_f_calls>>
    /\ UNCHANGED <<chanVars, genVars, pipeVars, pageVars, rateVars, cacheVars>>

\* one unit of the sleep passes
sleepTick ==
    /\ r_pc = "sleeping"
    /\ r_sleep_left > 0
    /\ r_sleep_left' = r_sleep_left - 1
    /\ UNCHANGED <<r_pc, r_options, r_info, r_f_calls, r_delay_calls, r_sleeps, r_result>>
    /\ UNCHANGED <<chanVars, genVars, pipeVars, pageVars, rateVars, cacheVars>>

\* the sleep is over, doDelay returns true and the loop calls f(info) again
sleepDone ==
    /\ r_pc = "sleeping"
    /\ r_sleep_left = 0
    /\ r_pc' = "calling"
    /\ r_f_calls' = Append(r_f_calls, r_info.attempts)
    /\ UNCHANGED <<r_options, r_info, r_delay_calls, r_sleeps, r_sleep_left, r_result>>
    /\ UNCHANGED <<chanVars, genVars, pipeVars, pageVars, rateVars, cacheVars>>

RetryNext ==
    \/ \E options \in BackoffOptions : retryWithDelay(options)
    \/ fResolves
    \/ fRejects
    \/ sleepTick
    \/ sleepDone

Init ==
    /\ ChanInit /\ GenInit /\ PipeInit /\ PageInit
    /\ RateInit /\ CacheInit /\ RetryInit

\* a channel, its producer and its readers
Spec == Init /\ [][Next]_vars

\* an executor driving a generator made by toAsyncGenerator
SpecGen == Init /\ [][GenNext]_vars

\* a source piped into a channel that has readers
SpecPipe == Init /\ [][PipeNext]_vars

\* a function retried with an exponential backoff delay that forfeits
SpecRetry == Init /\ [][RetryNext]_vars

\* callers of a cached function, the promises of fn and clearCache
SpecCache == Init /\ [][CacheNext]_vars

\* callers of a rate-limited function, its timer and the clock
SpecRate == Init /\ [][RateNext]_vars

\* Time passes, a due timer fires, promise callbacks run, and fn settles
\* every call it was started for.
FairSpecRate ==
    /\ Init
    /\ [][RateNext]_vars
    /\ WF_vars(rateTick)
    /\ WF_vars(timerFires)
    /\ \A c \in Calls :
          /\ WF_vars(\E ok \in BOOLEAN : fnSettles(c, ok))
          /\ WF_vars(finallyCallback(c))

\* a consumer iterating fetchPages(fetcher) while the fetches settle
SpecPages == Init /\ [][PagesNext]_vars

\* The event loop runs every continuation that is ready, and the consumer of
\* an iterator keeps requesting the next item; the producer owes nothing.
FairSpec ==
    /\ Init
    /\ [][Next]_vars
    /\ \A i \in Readers : WF_vars(iterNext(i)) /\ WF_vars(iterResume(i))

\* ================================================================ properties
\* Readings of the log used to state the properties.
RECURSIVE YieldPayloads(_)
YieldPayloads(evs) ==
    IF evs = <<>> THEN <<>>
    ELSE IF Head(evs).type = "yield"
         THEN <<Head(evs).value>> \o YieldPayloads(Tail(evs))
         ELSE YieldPayloads(Tail(evs))

\* index of the first Return/Throw of the log, 0 when there is none
FirstTerminal(evs) ==
    IF \E k \in 1..Len(evs) : IsTerminal(evs[k])
    THEN CHOOSE k \in 1..Len(evs) :
            IsTerminal(evs[k]) /\ \A m \in 1..(k - 1) : ~IsTerminal(evs[m])
    ELSE 0

HasTerminal(evs) == FirstTerminal(evs) > 0

\* what a full iteration of the log is to surface, and how it is to end
ReplayValues(evs) ==
    IF HasTerminal(evs) THEN YieldPayloads(SubSeq(evs, 1, FirstTerminal(evs) - 1))
    ELSE YieldPayloads(evs)

ReplayOutcome(evs) ==
    [kind |-> evs[FirstTerminal(evs)].type, value |-> evs[FirstTerminal(evs)].value]

IterIds == {i \in Readers : iters[i].pc # "none"}
FinishedIds == {i \in Readers : Finished(iters[i])}
SubIds == {s \in Readers : subs[s].state = "active"}

\* C1: at every point of every interleaving, what an iterator has surfaced is
\* the first n Yield payloads of the log in append order, n being the number
\* of items surfaced, and it is every Yield among the events it has read:
\* nothing reordered, repeated, coalesced or dropped.
IteratorSurfacesLogPrefix ==
    \A i \in IterIds :
        /\ iters[i].surfaced =
              SubSeq(YieldPayloads(events), 1, Len(iters[i].surfaced))
        /\ iters[i].surfaced =
              YieldPayloads(SubSeq(events, 1, iters[i].position))

\* an iterator that suspended, was woken by a sink call, and has surfaced two
\* items while the producer has appended a third event
IteratorSurfacesLogPrefixWitness ==
    \E i \in IterIds :
        /\ Len(iters[i].surfaced) = 2
        /\ iters[i].pc = "woken"
        /\ Len(events) = 3

\* C2: any two iterators run to completion have surfaced the same values and
\* ended the same way, whenever each was started; both began at position 0,
\* so each holds every Yield that precedes the terminal event.
AllConsumersAgree ==
    \A i, j \in FinishedIds :
        /\ iters[i].surfaced = iters[j].surfaced
        /\ iters[i].outcome = iters[j].outcome
        /\ Len(iters[i].surfaced) = iters[i].position - 1

\* two finished iterators whose iterations overlapped (the second was
\* obtained before the first had finished), with items surfaced
AllConsumersAgreeWitness ==
    \E i, j \in FinishedIds :
        /\ i < j
        /\ i \notin iters[j].after
        /\ Len(iters[j].surfaced) >= 1

\* C3: an iteration begun after another one has finished surfaces the same
\* values, ends the same way and stops at the same log position: the finished
\* iteration has consumed nothing.
ReplayIsIdentical ==
    \A j \in FinishedIds : \A i \in iters[j].after :
        /\ iters[j].surfaced = iters[i].surfaced
        /\ iters[j].outcome = iters[i].outcome
        /\ iters[j].position = iters[i].position

\* a second full iteration made after the first one finished, over a log
\* with two items and a terminal event
ReplayIsIdenticalWitness ==
    \E j \in FinishedIds :
        /\ iters[j].after # {}
        /\ Len(iters[j].surfaced) = 2

\* C4: once the producer has made a terminal call, result() is settled the
\* way a full iteration of the source ends: resolved with v when iteration
\* returns v, rejected with e when iteration raises e, whatever iterators and
\* subscribe callbacks are attached.
OutcomeMatchesIteration ==
    HasTerminal(events) =>
        /\ result_promise.status =
              (IF ReplayOutcome(events).kind = "return" THEN "resolved" ELSE "rejected")
        /\ result_promise.value = ReplayOutcome(events).value
        /\ \A i \in FinishedIds : iters[i].outcome.value = result_promise.value

\* C5: the first terminal sink call is authoritative. Once the log holds a
\* terminal event, result() is settled and no later sink call changes it,
\* changes what a full iteration surfaces, or changes a finished iterator;
\* every finished iterator, obtained before or after, has surfaced the yields
\* that precede the first terminal event and ended with that event.
FirstTerminalIsAuthoritative ==
    /\ [][HasTerminal(events) =>
            /\ result_promise.status # "pending"
            /\ result_promise' = result_promise
            /\ ReplayValues(events') = ReplayValues(events)
            /\ ReplayOutcome(events') = ReplayOutcome(events)
            /\ \A i \in FinishedIds : iters'[i] = iters[i]]_vars
    /\ [](\A i \in FinishedIds :
            /\ HasTerminal(events)
            /\ iters[i].surfaced = ReplayValues(events)
            /\ iters[i].outcome = ReplayOutcome(events))

\* sink calls were made after the first terminal call, and an iterator
\* obtained after them has run to completion
FirstTerminalIsAuthoritativeWitness ==
    /\ HasTerminal(events)
    /\ Len(events) = FirstTerminal(events) + 2
    /\ result_promise.status # "pending"
    /\ \E i \in FinishedIds : TRUE

\* C6: the log holds at most one terminal event, and a terminal event is the
\* last entry of the log.
AtMostOneTerminalAndLast ==
    /\ Cardinality({k \in 1..Len(events) : IsTerminal(events[k])}) <= 1
    /\ HasTerminal(events) => FirstTerminal(events) = Len(events)

\* C7: after subscribe(callback) has returned, the callback has been invoked
\* exactly once, in append order, for every event appended since.
SubscriberGetsEveryLaterEvent ==
    \A s \in SubIds :
        (subs[s].kind = "all" /\ ~subs[s].throws) =>
            LET Later(r) == r.pos > subs[s].regLen IN
            SelectSeq(subs[s].received, Later) =
                [k \in 1..(Len(events) - subs[s].regLen) |->
                    [pos |-> subs[s].regLen + k,
                     type |-> events[subs[s].regLen + k].type,
                     value |-> events[subs[s].regLen + k].value]]

\* C8: a callback registered with onThrow (onReturn) before the producer's
\* terminal call has been invoked exactly once, with the payload of that
\* call, once error() (complete()) has been called, however many next() calls
\* came in between; it is invoked for no event of another kind.
TerminalCallbackInvokedOnce ==
    \A s \in SubIds :
        (subs[s].kind \in {"throw", "return"} /\ ~subs[s].throws) =>
            /\ \A k \in 1..Len(subs[s].received) :
                    subs[s].received[k].type = subs[s].kind
            /\ ( /\ HasTerminal(events)
                 /\ subs[s].regLen < FirstTerminal(events)
                 /\ events[FirstTerminal(events)].type = subs[s].kind )
               => /\ Len(subs[s].received) = 1
                  /\ subs[s].received[1].value = events[FirstTerminal(events)].value

\* C9: no subscribe/onYield/onReturn/onThrow callback, registered before or
\* after the terminal event, is invoked with an event appended after the
\* first terminal event.
NoDeliveryPastTerminal ==
    \A s \in Readers : \A k \in 1..Len(subs[s].received) :
        HasTerminal(events) => subs[s].received[k].pos <= FirstTerminal(events)

\* C10: while neither complete nor error has been called the promise of
\* result() is pending, whatever waiters and subscribers are registered, and
\* once settled it never changes.
OutcomeSettledOnlyByTerminal ==
    /\ [](~HasTerminal(events) => result_promise.status = "pending")
    /\ [][result_promise.status # "pending" => result_promise' = result_promise]_vars

InWaiters(kind, id) ==
    \E k \in 1..Len(waiters) : waiters[k].kind = kind /\ waiters[k].id = id

\* C11: broadcast wake-up. A sink call invokes every waiter registered at
\* that moment and leaves none registered: a suspended iterator is either
\* still registered or was woken, and a subscription whose flush has left the
\* waiter list has had its flush called by a sink call.
EveryWaiterWoken ==
    /\ \A i \in IterIds : iters[i].pc = "waiting" => InWaiters("resolve", i)
    /\ \A s \in SubIds :
          (~subs[s].throws /\ Len(events) > subs[s].regLen)
              => subs[s].position > subs[s].regLen
    /\ \A k \in 1..Len(waiters) :
          \/ waiters[k].kind = "resolve" /\ iters[waiters[k].id].position = Len(events)
          \/ waiters[k].kind = "flush" /\ subs[waiters[k].id].regLen = Len(events)

\* C12: no lost wake-up. Under fair scheduling an iterator never stays
\* suspended while the log holds an event it has not read, and once the
\* producer has made a terminal call every iterator whose consumer keeps
\* requesting items terminates.
NoLostWakeup ==
    \A i \in Readers :
        /\ (iters[i].pc = "waiting" /\ iters[i].position < Len(events))
              ~> (iters[i].pc # "waiting")
        /\ (iters[i].pc # "none" /\ HasTerminal(events)) ~> Finished(iters[i])

\* C13: for a log of k Yield events followed by Throw(e), an iterator that
\* has read the Throw has surfaced the k values, has raised exactly e at that
\* position and reads nothing more; result() is rejected with the same e.
ThrowRaisedOnceAtItsPosition ==
    LET t == FirstTerminal(events) IN
    (t > 0 /\ events[t].type = "throw") =>
        /\ \A i \in IterIds : iters[i].position >= t =>
              /\ iters[i].pc = "failed"
              /\ iters[i].position = t
              /\ iters[i].outcome = [kind |-> "throw", value |-> events[t].value]
              /\ iters[i].surfaced = YieldPayloads(SubSeq(events, 1, t - 1))
        /\ result_promise = [status |-> "rejected", value |-> events[t].value]

\* C14: a sink call never throws to the producer, before or after a terminal
\* event, whatever iterators are suspended and whatever subscribe callbacks
\* are registered, callbacks that throw included.
SinkNeverThrows == sink_threw = FALSE

\* a sink call made after the terminal event has invoked a subscribe callback
\* that threw
SinkNeverThrowsWitness ==
    /\ HasTerminal(events)
    /\ Len(events) > FirstTerminal(events)
    /\ \E s \in SubIds :
          /\ subs[s].throws
          /\ Len(subs[s].received) = 1
          /\ subs[s].received[1].pos = Len(events)

\* the events of positions lo..hi for which a subscription of this kind calls
\* its callback, as the callback records them
Expected(kind, lo, hi) ==
    LET Matches(k) == kind = "all" \/ kind = events[k].type
        Idx == {k \in lo..hi : Matches(k)}
        RECURSIVE Build(_)
        Build(k) ==
            IF k > hi THEN <<>>
            ELSE IF k \in Idx
                 THEN <<[pos |-> k, type |-> events[k].type, value |-> events[k].value]>>
                      \o Build(k + 1)
                 ELSE Build(k + 1)
    IN  Build(lo)

\* C15: when subscribe(callback) returns, the callback has been invoked
\* exactly once, in append order, for each event that was in the log at the
\* time of the call, and for no other event (until a sink call is made).
SubscribeReplaysLog ==
    \A s \in SubIds :
        LET Early(r) == r.pos <= subs[s].regLen IN
        /\ SelectSeq(subs[s].received, Early) = Expected(subs[s].kind, 1, subs[s].regLen)
        /\ InWaiters("flush", s) =>
              /\ subs[s].received = Expected(subs[s].kind, 1, subs[s].regLen)
              /\ subs[s].position = subs[s].regLen

\* subscribe has just returned on a log that held two events, both replayed
SubscribeReplaysLogWitness ==
    \E s \in SubIds :
        /\ InWaiters("flush", s)
        /\ subs[s].regLen = 2
        /\ Len(subs[s].received) = 2

\* C16: reading is free of side effects on shared state. The log changes only
\* by one event appended at its end, and only in a step that is a sink call
\* (no reader is created or advanced in it); a step that creates or advances
\* a reader leaves the log and every other iterator's position unchanged.
ReadingHasNoSideEffects ==
    [][ /\ \/ events' = events
           \/ /\ Len(events') = Len(events) + 1
              /\ SubSeq(events', 1, Len(events)) = events
              /\ \A i \in Readers :
                    /\ iters'[i].position = iters[i].position
                    /\ iters'[i].surfaced = iters[i].surfaced
                    /\ (iters'[i].pc = "none") = (iters[i].pc = "none")
              /\ \A s \in Readers : (subs'[s].state = "none") = (subs[s].state = "none")
        /\ \A i, j \in Readers :
              (i # j /\ iters'[i] # iters[i]) => iters'[j] = iters[j] \/ events' # events
      ]_vars

\* two iterators at different positions of a log of two events, one of them
\* suspended at its end
ReadingHasNoSideEffectsWitness ==
    /\ Len(events) = 2
    /\ \E i, j \in IterIds :
          /\ iters[i].position = 2
          /\ iters[i].pc = "waiting"
          /\ iters[j].position = 1

GenFinished == g_pc \in {"done", "failed"}

\* C17: when the executor throws a value e synchronously, the controller's log
\* is what the executor pushed before the throw followed by Throw(e), as if
\* error(e) had been called at that point: the iteration surfaces the values
\* pushed before the throw and ends as the log says, raising e when no
\* terminal call came before the throw (at its first step when nothing was
\* pushed), and e reaches the consumer in no other way.
ExecutorThrowIsError ==
    g_exec.threw =>
        /\ Len(g_events) > Len(g_exec.sync)
        /\ SubSeq(g_events, 1, Len(g_exec.sync)) = g_exec.sync
        /\ g_events[Len(g_exec.sync) + 1] = ThrowEvent(ExecutorError)
        /\ g_surfaced = SubSeq(ReplayValues(g_events), 1, Len(g_surfaced))
        /\ GenFinished =>
              /\ g_surfaced = ReplayValues(g_events)
              /\ g_outcome = ReplayOutcome(g_events)
        /\ (GenFinished /\ ~HasTerminal(g_exec.sync)) =>
              /\ g_surfaced = YieldPayloads(g_exec.sync)
              /\ g_outcome = [kind |-> "throw", value |-> ExecutorError]
        /\ g_exec.sync = <<>> =>
              /\ g_pc = "failed"
              /\ g_surfaced = <<>>
              /\ g_outcome = [kind |-> "throw", value |-> ExecutorError]

\* an executor pushed two values and threw; the iteration surfaced both and
\* raised the thrown value
ExecutorThrowIsErrorWitness ==
    /\ g_exec.threw
    /\ g_pc = "failed"
    /\ Len(g_exec.sync) = 2
    /\ Len(g_surfaced) = 2
    /\ g_outcome = [kind |-> "throw", value |-> ExecutorError]

\* C18 as stated: once the call toAsyncGenerator(executor) has returned, the
\* executor has run exactly once, whether or not an iteration step was
\* requested.
ExecutorRunsInCall == g_pc # "none" => g_exec.runs = 1

\* C18: the call toAsyncGenerator(executor) does not run the executor; the
\* executor is invoked exactly once, synchronously within the first
\* iteration step of the returned generator, and never again.
ExecutorRunsOnceAtFirstStep ==
    g_exec.runs = (IF g_pc \in {"none", "created"} THEN 0 ELSE 1)

\* a generator that was iterated to its end, its executor having run once
ExecutorRunsOnceAtFirstStepWitness ==
    /\ g_pc = "done"
    /\ g_exec.runs = 1
    /\ Len(g_surfaced) >= 1

\* the sink call pipeToAsyncSink makes for a result of the source
SinkCallFor(res) ==
    [type |-> CASE res.kind = "value" -> "yield"
                [] res.kind = "done" -> "return"
                [] res.kind = "raise" -> "throw",
     value |-> res.value]

\* C19: the calls pipeToAsyncSink has made on the sink are, in order, one
\* next per value the source produced, then complete with the return value
\* or error with the thrown value once the source has ended; a terminal call
\* is the last call; the promise is never rejected and is resolved exactly
\* when the terminal call has been made.
PipeForwardsInOrder ==
    /\ events = [k \in 1..Len(src_out) |-> SinkCallFor(src_out[k])]
    /\ \A k \in 1..(Len(events) - 1) : events[k].type = "yield"
    /\ p_pc \in {"none", "awaiting", "resolved"}
    /\ p_pc = "resolved" <=> (events # <<>> /\ IsTerminal(events[Len(events)]))
    /\ p_pc = "none" => events = <<>>

\* a source yielded two values and threw; the pipe made next, next, error and
\* resolved
PipeForwardsInOrderWitness ==
    /\ p_pc = "resolved"
    /\ Len(src_out) = 3
    /\ src_out[3].kind = "raise"
    /\ events[3] = ThrowEvent(src_out[3].value)

\* C20: once a page fetch has failed, no further page is delivered; the
\* controller's log is the pages delivered before the failure, then the
\* error of that fetch, then the executor's complete(); the iteration yields
\* exactly those pages and raises that error, and neither the iteration nor
\* result() ends as a normal completion.
FetchFailureIsRaised ==
    /\ [](page_promise.status = "rejected" =>
            LET err == page_promise.value IN
            /\ \E index \in PageIndices :
                  fetches[index].state = "rejected" /\ err = FetchError(index)
            /\ YieldPayloads(g_events) = delivered
            /\ g_surfaced = SubSeq(delivered, 1, Len(g_surfaced))
            /\ g_pc # "done"
            /\ g_outcome.kind # "return"
            /\ g_result.status # "resolved"
            /\ exec_pc = "finished" =>
                  /\ g_events = [k \in 1..Len(delivered) |-> YieldEvent(delivered[k])]
                                   \o <<ThrowEvent(err), ReturnEvent(Undefined)>>
                  /\ g_result = [status |-> "rejected", value |-> err]
            /\ GenFinished =>
                  /\ g_surfaced = delivered
                  /\ g_outcome = [kind |-> "throw", value |-> err])
    /\ [][page_promise.status = "rejected" =>
            /\ delivered' = delivered
            /\ page_promise' = page_promise]_vars

\* the second fetch to settle failed after one page was delivered; the
\* iteration yielded that page and raised the fetch's error, the executor
\* having called error and complete
FetchFailureIsRaisedWitness ==
    /\ page_promise.status = "rejected"
    /\ exec_pc = "finished"
    /\ g_pc = "failed"
    /\ Len(delivered) >= 1
    /\ g_surfaced = delivered
    /\ g_outcome = [kind |-> "throw", value |-> page_promise.value]
    /\ \E index \in PageIndices : fetches[index].state = "inflight"

\* C21: the promise of forEachPage settles once; once it has rejected because
\* a fetch failed, the callback is not invoked again and no fetch is started,
\* however the fetches still in flight settle.
ForEachPageSettlesOnce ==
    /\ [][page_promise.status # "pending" => page_promise' = page_promise]_vars
    /\ [][page_promise.status = "rejected" =>
            /\ delivered' = delivered
            /\ fetch_calls' = fetch_calls
            /\ max_pages' = max_pages
            /\ \A i \in PageIndices :
                  fetches[i].state = "none" => fetches'[i].state = "none"]_vars
    /\ [](page_promise.status = "rejected" => on_success = "null")

\* after a fetch failed, a fetch that was in flight resolved with a page and a
\* larger num_pages and was ignored, and another one rejected and was ignored
ForEachPageSettlesOnceWitness ==
    /\ page_promise.status = "rejected"
    /\ \E i \in PageIndices :
          /\ fetches[i].state = "ignored"
          /\ fetches[i].has_page
          /\ fetches[i].grows
    /\ \A i \in PageIndices : fetches[i].state # "inflight"

FetchesDone == {i \in PageIndices : fetches[i].state = "done"}

\* C22: while no fetch has failed, the fetcher has been called exactly once
\* for each index below the largest num_pages reported so far (at least 1)
\* and for no other index, the callback has been invoked exactly once for
\* each non-nullish page received, and the promise is resolved exactly when
\* every started fetch has completed.
EachPageFetchedOnce ==
    (exec_pc # "none" /\ \A i \in PageIndices : fetches[i].state # "rejected") =>
        /\ Len(fetch_calls) = reported
        /\ {fetch_calls[k] : k \in 1..Len(fetch_calls)} = 0..(reported - 1)
        /\ Len(delivered) = Cardinality({i \in FetchesDone : fetches[i].has_page})
        /\ {delivered[k] : k \in 1..Len(delivered)}
              = {i \in FetchesDone : fetches[i].has_page}
        /\ page_promise.status # "rejected"
        /\ page_promise.status = "resolved"
              <=> (\A i \in 0..(reported - 1) : i \in FetchesDone)

\* num_pages grew in two steps up to MaxPages, one page was nullish, the
\* pages arrived out of order, and forEachPage resolved
EachPageFetchedOnceWitness ==
    /\ page_promise.status = "resolved"
    /\ reported = MaxPages
    /\ \E i \in PageIndices : i > 0 /\ fetches[i].grows
    /\ \E i \in PageIndices : fetches[i].state = "done" /\ ~fetches[i].has_page
    /\ \E k \in 1..(Len(delivered) - 1) : delivered[k] > delivered[k + 1]

Started == {rl_starts[k].call : k \in 1..Len(rl_starts)}

\* C23: fn is started for the calls in the order the wrapper was called, the
\* promise of a call settles with the outcome of fn for that call, and every
\* call made is eventually started and its promise settled, whether the call
\* arrived while idle, while a call was processing or while the timer was
\* pending.
FifoNoCallLost ==
    /\ [](\A k \in 1..Len(rl_starts) : rl_starts[k].call = k)
    /\ [](\A c \in Calls : rl_settled[c].status # "pending" =>
              c \in Started /\ rl_settled[c].value = c)
    /\ \A c \in Calls :
          (rl_calls[c].state # "none") ~> (c \in Started /\ rl_settled[c].status # "pending")

\* three calls, one arrived idle, one while a call was processing and one
\* while the timer was pending, were started in order and settled
FifoNoCallLostWitness ==
    /\ Len(rl_starts) = 3
    /\ {rl_calls[c].arrived : c \in Calls} = {"idle", "processing", "timer"}
    /\ \A c \in 1..3 : rl_settled[c].status # "pending"
    /\ \E c \in 1..3 : rl_settled[c].status = "rejected"

\* C24: processing_count is 0 or 1 and counts the calls fn is running for,
\* and a call is started only after the promise of the call started before
\* it has settled.
OneExecutionAtATime ==
    /\ processing_count \in {0, 1}
    /\ Cardinality({c \in Calls : rl_calls[c].state \in {"running", "settled"}})
          = processing_count
    /\ \A k \in 2..Len(rl_starts) :
          rl_settled[rl_starts[k - 1].call].status # "pending"

\* fn took at least duration_ms for a call while another call was queued, and
\* the queued call was started after it
OneExecutionAtATimeWitness ==
    /\ Len(rl_starts) >= 2
    /\ rl_calls[1].took = DurationMs
    /\ rl_calls[2].arrived = "processing"
    /\ rl_calls[2].state = "running"

\* C25: any two consecutive starts of fn are at least duration_ms apart.
StartsAtLeastDurationApart ==
    \A k \in 2..Len(rl_starts) : rl_starts[k].gap = DurationMs

\* C26: of two calls of the wrapper with the same key and no clearCache()
\* between them, the later returns the promise the earlier returned unless
\* that promise has rejected; fn is called again for a key, with no
\* clearCache() between, only after the promise of its previous call rejected.
CachedCoalesces ==
    /\ \A a, b \in 1..Len(cache_log) :
          (/\ a < b
           /\ cache_log[a].key = cache_log[b].key
           /\ cache_log[a].clears = cache_log[b].clears
           /\ cache_log[a].promise # cache_log[b].promise)
          => promises[cache_log[a].promise].status = "rejected"
    /\ \A q, r \in 1..Len(promises) :
          (q < r /\ promises[q].key = promises[r].key
                 /\ promises[q].clears = promises[r].clears)
          => promises[q].status = "rejected"
    /\ \A b \in 1..Len(cache_log) :
          cache_log[b].fresh <=>
              (\A a \in 1..(b - 1) : cache_log[a].promise # cache_log[b].promise)

\* three calls with one key returned one promise: the first called fn, the
\* second came while the promise was pending, the third after it resolved
CachedCoalescesWitness ==
    \E a, b, c \in 1..Len(cache_log) :
        /\ a < b /\ b < c
        /\ cache_log[a].fresh
        /\ cache_log[b].promise = cache_log[a].promise
        /\ cache_log[c].promise = cache_log[a].promise
        /\ cache_log[b].seen = "pending"
        /\ cache_log[c].seen = "resolved"
        /\ Len(promises) = 1

\* C27: no call of the wrapper returns a promise that has rejected: once the
\* stored promise has rejected, the next call with its key calls fn again.
RejectedPromiseNotReturned ==
    \A a \in 1..Len(cache_log) : cache_log[a].seen # "rejected"

\* C30: the cache maps a key to nothing or to the promise of the most recent
\* call of fn for that key, and, clearCache() apart, an entry is removed only
\* by the catch callback of the promise it holds: a late rejection of an
\* older promise leaves the newer entry.
EvictsOnlyOwnEntry ==
    /\ [](\A key \in Keys :
            cache_map[key] # 0 =>
                /\ cache_map[key] \in 1..Len(promises)
                /\ promises[cache_map[key]].key = key
                /\ \A q \in 1..Len(promises) :
                      promises[q].key = key => q <= cache_map[key])
    /\ [][\A key \in Keys :
            (clears' = clears /\ cache_map[key] # 0 /\ cache_map'[key] # cache_map[key])
            => \/ /\ cache_map'[key] = 0
                  /\ promises[cache_map[key]].handler = "queued"
                  /\ promises'[cache_map[key]].handler = "ran"
               \/ /\ cache_map'[key] = Len(promises')
                  /\ Len(promises') = Len(promises) + 1]_vars

\* after clearCache() a newer promise was stored under the key of an older
\* one; the older one rejected and its catch callback ran; the newer entry
\* is still there
EvictsOnlyOwnEntryWitness ==
    \E q, r \in 1..Len(promises) :
        /\ q < r
        /\ promises[q].key = promises[r].key
        /\ promises[q].clears < promises[r].clears
        /\ promises[q].handler = "ran"
        /\ promises[q].ran_at >= r
        /\ cache_map[promises[r].key] = r

\* C28: with max_attempts N > 0, f is called at most N times; the k-th call
\* of f and the k-th call of the delay function get the number of failures so
\* far; a success is returned at once as the result of that attempt; null is
\* returned exactly after the N-th failure, with N calls of f, N - 1 sleeps
\* and no further call.
RetryAtMostMaxAttempts ==
    r_pc # "none" =>
        LET N == r_options.max_attempts IN
        /\ Len(r_f_calls) <= N
        /\ \A k \in 1..Len(r_f_calls) : r_f_calls[k] = k - 1
        /\ \A k \in 1..Len(r_delay_calls) : r_delay_calls[k] = k
        /\ Len(r_delay_calls) = r_info.attempts
        /\ r_info.attempts \in {Len(r_f_calls) - 1, Len(r_f_calls)}
        /\ Len(r_sleeps) = (IF r_result.kind = "null" THEN r_info.attempts - 1
                            ELSE r_info.attempts)
        /\ (r_pc = "returned") <=> (r_result.kind # "none")
        /\ r_result.kind = "value" =>
              /\ r_result.value = Len(r_f_calls)
              /\ r_info.attempts = Len(r_f_calls) - 1
        /\ r_result.kind = "null" =>
              /\ r_info.attempts = N
              /\ Len(r_f_calls) = N
        /\ r_info.attempts >= N => r_result.kind = "null"

\* with max_attempts 3, f failed three times: two sleeps, then null
RetryAtMostMaxAttemptsWitness ==
    /\ r_result.kind = "null"
    /\ r_options.max_attempts = 3
    /\ r_f_calls = <<0, 1, 2>>
    /\ Len(r_sleeps) = 2

\* C29: an iterator's position never decreases and never exceeds the length
\* of the log; its resolve is in the waiter list at most once, and only while
\* it is suspended with its position at the end of the log and no terminal
\* event read; an iterator that has not ended has read no terminal event;
\* and an iterator that has ended changes no more and is not in the waiter
\* list.
CursorStateMachine ==
    /\ [](\A i \in IterIds :
            /\ iters[i].position <= Len(events)
            /\ Cardinality({k \in 1..Len(waiters) :
                    waiters[k] = [kind |-> "resolve", id |-> i]}) <= 1
            /\ InWaiters("resolve", i) =>
                  /\ iters[i].pc = "waiting"
                  /\ iters[i].position = Len(events)
            /\ ~Finished(iters[i]) =>
                  \A k \in 1..iters[i].position : ~IsTerminal(events[k])
            /\ Finished(iters[i]) =>
                  /\ ~InWaiters("resolve", i)
                  /\ IsTerminal(events[iters[i].position]))
    /\ [][\A i \in IterIds :
            /\ iters'[i].position >= iters[i].position
            /\ Finished(iters[i]) => iters'[i] = iters[i]]_vars

\* two iterators were suspended and woken by a sink call; one has resumed,
\* read the new event and suspended again at the end of the log, registered
\* once, while the other has not run yet
CursorStateMachineWitness ==
    \E i, j \in IterIds :
        /\ iters[i].pc = "waiting"
        /\ InWaiters("resolve", i)
        /\ iters[i].position = 2
        /\ Len(events) = 2
        /\ iters[j].pc = "woken"
        /\ iters[j].position = 1

====
